---------------------------- MODULE Spec2Model ----------------------------
(***************************************************************************)
(* A model of FTL's dnsmasq configuration writer                           *)
(* (src/config/dnsmasq_config.c): the renderer and installer               *)
(* write_dnsmasq_config, the validator test_dnsmasq_config, the line       *)
(* locator (get_lineno_from_string, get_dnsmasq_line) and the two legacy   *)
(* importers.                                                              *)
(*                                                                         *)
(* C strings are sequences of one-character strings; a buffer holds its    *)
(* terminating NUL explicitly.  Rendered configuration lines are TLA+      *)
(* strings, one per line of the file.                                      *)
(***************************************************************************)
EXTENDS Integers, Sequences, FiniteSets, TLC

VARIABLES
    locPc,        \* LineLocator: "call" before the call is made, "done" after
    locCall,      \* LineLocator: the call being made (operation and arguments)
    locRet,       \* LineLocator: the value the call returned
    stagedBytes,  \* LineLocator: what fopen(DNSMASQ_TEMP_CONF, "r") finds
    tpc,          \* test_dnsmasq_config: the parent's position
    errbuf,       \* test_dnsmasq_config: the caller's buffer, NULL or ERRBUF_SIZE bytes
    pipeBuf,      \* the bytes in the pipe, oldest first
    writers,      \* the processes that hold the pipe's write end open
    child,        \* the forked child: its state, the output it has yet to
                  \* write, and how it ended
    status,       \* the int status that waitpid() fills in
    code,         \* test_dnsmasq_config's local code
    crashed,      \* test_dnsmasq_config's local crashed
    tret,         \* the value test_dnsmasq_config returned
    reads,        \* history: the chunks the successful read() calls delivered
    overrun,      \* history: a byte outside errbuf was examined
    renConf,      \* ConfigRenderer: the configuration model (struct config)
    renEnv,       \* ConfigRenderer: the time string and whether /etc/dnsmasq.d exists
    renOut,       \* ConfigRenderer: the renderings made, each with its model
                  \* and environment
    pc,           \* write_dnsmasq_config: each process's position in its call
    call,         \* each process's current or last call: its arguments, what
                  \* the validation did, whether it renamed, what it returned
    fd,           \* the inode each process's pihole_conf handle is open on, 0 for none
    leaked,       \* the number of handles each process has left open for good
    calls,        \* history: the number of calls each process has begun, up to MaxCalls
    recording,    \* whether touched, last and installed are being kept
    lock,         \* for each inode, the process whose handle holds flock() on it, 0 for none
    path,         \* the inode at DNSMASQ_TEMP_CONF and at DNSMASQ_PH_CONFIG, 0 for none
    content,      \* the lines of each inode
    touched,      \* history: the live file changed since the process's call began
    last,         \* history: the call that returned last, and what it did
    installed,    \* history: the call whose rename put the live file in place
    legFile,      \* LegacyImporter: the bytes of each legacy file, Absent when there is none
    legBck,       \* LegacyImporter: the bytes of each legacy file's .bck
    legList,      \* LegacyImporter: config.dnsmasq.dhcp.hosts and config.dnsmasq.cnames
    legOrig,      \* history: each legacy file as it was before the first call
    legOpens,     \* history: how often each legacy file has been opened
    legLast       \* history: the import that returned last, and what it did

locVars == <<locPc, locCall, locRet, stagedBytes>>

valVars == <<tpc, errbuf, pipeBuf, writers, child, status, code, crashed, tret,
             reads, overrun>>

renVars == <<renConf, renEnv, renOut>>

instVars == <<pc, call, fd, leaked, calls, recording, lock, path, content, touched,
              last, installed>>

legVars == <<legFile, legBck, legList, legOrig, legOpens, legLast>>
vars == <<locVars, valVars, renVars, instVars, legVars>>

---------------------------------------------------------------------------
(* C strings *)

NUL == "NUL"
NL == "\n"
\* the value of a NULL pointer result, distinct from every string
NULL == <<"NULL">>
Min(a, b) == IF a < b THEN a ELSE b

RECURSIVE Flatten(_)
Flatten(ss) == IF ss = <<>> THEN <<>> ELSE Head(ss) \o Flatten(Tail(ss))

\* isspace() for the characters the model uses
IsSpace(c) == c \in {" ", NL, "\t"}

DigitValue(c) ==
    CASE c = "0" -> 0 [] c = "1" -> 1 [] c = "2" -> 2 [] c = "3" -> 3
      [] c = "4" -> 4 [] c = "5" -> 5 [] c = "6" -> 6 [] c = "7" -> 7
      [] c = "8" -> 8 [] c = "9" -> 9 [] OTHER -> -1

IsDigit(c) == DigitValue(c) >= 0

\* whether needle occurs in s at (1-based) position i
MatchAt(s, needle, i) ==
    /\ i >= 1
    /\ i + Len(needle) - 1 <= Len(s)
    /\ SubSeq(s, i, i + Len(needle) - 1) = needle

\* strstr(): the position of the last occurrence (a wrong scan direction)
strstr_last(s, needle) ==
    LET hits == {i \in 1..Len(s) : MatchAt(s, needle, i)}
    IN  IF hits = {} THEN 0 ELSE CHOOSE i \in hits : \A j \in hits : j <= i

\* strstr(): the position of the first occurrence of needle in s, 0 for NULL
strstr(s, needle) ==
    LET hits == {i \in 1..Len(s) : MatchAt(s, needle, i)}
    IN  IF hits = {} THEN 0 ELSE CHOOSE i \in hits : \A j \in hits : i <= j

---------------------------------------------------------------------------
(* The components at rest: each specification below runs one component and
   leaves the others in these states *)

\* the staged file cannot be opened for reading
Unreadable == <<"unreadable">>

\* an int that was never assigned
Uninit == -1

NoChild == [state |-> "none", out |-> <<>>, outcome |-> [kind |-> "none"]]

LocIdle ==
    /\ locPc = "idle"
    /\ locCall = [op |-> "none"]
    /\ locRet = NULL
    /\ stagedBytes = Unreadable

ValIdle ==
    /\ tpc = "idle"
    /\ errbuf = NULL
    /\ pipeBuf = <<>>
    /\ writers = {}
    /\ child = NoChild
    /\ status = Uninit
    /\ code = -1
    /\ crashed = FALSE
    /\ tret = FALSE
    /\ reads = <<>>
    /\ overrun = FALSE

NoModel == [port |-> 0]

NoEnv == [timestring |-> "", dir_exists |-> FALSE]

RenIdle ==
    /\ renConf = NoModel
    /\ renEnv = NoEnv
    /\ renOut = <<>>

\* the number of processes that call write_dnsmasq_config
NumProcs == 2

Procs == 1..NumProcs

\* an inode for each of the two paths and for each process's open handle
Inodes == 1..(NumProcs + 2)

NoCall == [conf |-> NoModel, env |-> NoEnv, test_config |-> FALSE, ev |-> "none",
           verdict |-> "none", renamed |-> FALSE, staged_kept |-> FALSE]

NoLast == [proc |-> 0, test_config |-> FALSE, ev |-> "none", verdict |-> "none",
           renamed |-> FALSE, staged_kept |-> FALSE, live_changed |-> FALSE,
           ret |-> FALSE]

NotInstalled == [proc |-> 0, test_config |-> FALSE, ev |-> "none", verdict |-> "none",
                 text |-> <<>>]

\* the two legacy files: DNSMASQ_STATIC_LEASES and DNSMASQ_CNAMES
Kinds == {"dhcp", "cname"}

\* no file at a path
Absent == <<"absent">>

NoImport == [kind |-> "none", existed |-> FALSE, opened |-> FALSE, closed |-> FALSE,
             renamed |-> FALSE, ret |-> FALSE, before |-> <<>>, found |-> <<>>,
             after_retired |-> FALSE, after_true |-> FALSE]

LegIdle ==
    /\ legFile = [k \in Kinds |-> Absent]
    /\ legBck = [k \in Kinds |-> Absent]
    /\ legList = [k \in Kinds |-> <<>>]
    /\ legOrig = [k \in Kinds |-> Absent]
    /\ legOpens = [k \in Kinds |-> 0]
    /\ legLast = NoImport

InstIdle ==
    /\ pc = [p \in Procs |-> "idle"]
    /\ call = [p \in Procs |-> NoCall]
    /\ fd = [p \in Procs |-> 0]
    /\ leaked = [p \in Procs |-> 0]
    /\ calls = [p \in Procs |-> 0]
    /\ recording = FALSE
    /\ lock = [i \in Inodes |-> 0]
    /\ path = [TEMP |-> 0, LIVE |-> 0]
    /\ content = [i \in Inodes |-> <<>>]
    /\ touched = [p \in Procs |-> FALSE]
    /\ last = NoLast
    /\ installed = NotInstalled

---------------------------------------------------------------------------
(* LineLocator: get_lineno_from_string *)

AT_LINE == <<" ", "a", "t", " ", "l", "i", "n", "e", " ">>
OF == <<" ", "o", "f", " ">>

\* the sscanf() format " at line %d of ", directive by directive: white space
\* in a format matches any amount of white space, none included
LinenoFormat ==
    <<[d |-> "ws"], [d |-> "lit", text |-> <<"a", "t">>], [d |-> "ws"],
      [d |-> "lit", text |-> <<"l", "i", "n", "e">>], [d |-> "ws"],
      [d |-> "int"], [d |-> "ws"],
      [d |-> "lit", text |-> <<"o", "f">>], [d |-> "ws"]>>

RECURSIVE SkipSpace(_, _)
SkipSpace(s, i) ==
    IF i <= Len(s) /\ IsSpace(s[i]) THEN SkipSpace(s, i + 1) ELSE i

RECURSIVE DigitsEnd(_, _)
\* the position after the run of digits that starts at i
DigitsEnd(s, i) ==
    IF i <= Len(s) /\ IsDigit(s[i]) THEN DigitsEnd(s, i + 1) ELSE i

RECURSIVE DigitsValue(_, _, _, _)
DigitsValue(s, i, e, acc) ==
    IF i >= e THEN acc ELSE DigitsValue(s, i + 1, e, 10 * acc + DigitValue(s[i]))

\* the %d conversion at position i: white space is skipped, then an optional
\* sign and at least one digit are read
ScanInt(s, i) ==
    LET j == SkipSpace(s, i)
        signed == j <= Len(s) /\ s[j] \in {"-", "+"}
        k == IF signed THEN j + 1 ELSE j
        e == DigitsEnd(s, k)
        v == DigitsValue(s, k, e, 0)
    IN  IF e = k THEN [ok |-> FALSE, next |-> j, value |-> 0]
        ELSE [ok |-> TRUE, next |-> e,
              value |-> IF signed /\ s[j] = "-" THEN 0 - v ELSE v]

RECURSIVE sscanf(_, _, _, _, _)
\* sscanf(): the number of conversions made and the converted value
\* (value is the variable's value before the call when none was made)
sscanf(s, i, fmt, n, value) ==
    IF fmt = <<>> THEN [count |-> n, value |-> value]
    ELSE LET f == Head(fmt) IN
         CASE f.d = "ws" -> sscanf(s, SkipSpace(s, i), Tail(fmt), n, value)
           [] f.d = "lit" ->
                IF MatchAt(s, f.text, i)
                THEN sscanf(s, i + Len(f.text), Tail(fmt), n, value)
                ELSE [count |-> n, value |-> value]
           [] f.d = "int" ->
                LET r == ScanInt(s, i) IN
                IF r.ok THEN sscanf(s, r.next, Tail(fmt), n + 1, r.value)
                ELSE [count |-> n, value |-> value]

get_lineno_from_string(string) ==
    LET ptr == strstr(string, AT_LINE)
        r == sscanf(string, ptr, LinenoFormat, 0, -1)
    IN  IF ptr = 0 THEN -1
        ELSE IF r.count = 1 THEN r.value ELSE -1

---------------------------------------------------------------------------
(* LineLocator: get_dnsmasq_line *)

\* C's strlen() of a NUL-terminated buffer
strlen(buf) == (CHOOSE i \in 1..Len(buf) : buf[i] = NUL /\ \A j \in 1..(i - 1) : buf[j] # NUL) - 1

\* the C string a buffer holds: its bytes before the first NUL
CStr(buf) == SubSeq(buf, 1, strlen(buf))

RECURSIVE GetlineLines(_)
\* the successive results of getline(): each line with its newline, a last
\* line without one when the file does not end in a newline
GetlineLines(bytes) ==
    IF bytes = <<>> THEN <<>>
    ELSE LET nl == strstr(bytes, <<NL>>) IN
         IF nl = 0 THEN <<bytes>>
         ELSE <<SubSeq(bytes, 1, nl)>> \o GetlineLines(SubSeq(bytes, nl + 1, Len(bytes)))

\* lines 157-158: the byte at index strlen(linebuffer) is examined (C indexes
\* from 0, so this is the terminator itself)
StripLineEnd(linebuffer) ==
    LET at == strlen(linebuffer) + 1 IN
    IF linebuffer[at] = NL THEN [linebuffer EXCEPT ![at] = NUL] ELSE linebuffer

RECURSIVE ScanLines(_, _, _)
ScanLines(lines, count, lineno) ==
    IF lines = <<>> THEN NULL
    ELSE IF count = lineno THEN CStr(StripLineEnd(Head(lines) \o <<NUL>>))
    ELSE ScanLines(Tail(lines), count + 1, lineno)

get_dnsmasq_line(file, lineno) ==
    IF file = Unreadable THEN NULL
    ELSE ScanLines(GetlineLines(file), 1, lineno)

---------------------------------------------------------------------------
(* ConfigValidator: test_dnsmasq_config *)

\* the size of the caller's buffer (scaled down)
ERRBUF_SIZE == 3
\* the capacity of the pipe (scaled down)
PIPE_CAP == 3
\* the longest output the child's parser writes
MaxOutput == 4

EXIT_SUCCESS == 0

\* the status word waitpid() stores for a child that ended
WaitStatus(outcome) ==
    IF outcome.kind = "exit" THEN (outcome.code % 256) * 256
    ELSE outcome.sig + (IF outcome.core THEN 128 ELSE 0)

WEXITSTATUS(s) == (s \div 256) % 256

WTERMSIG(s) == s % 128

\* a test of the crash that never fires
WIFSIGNALED_never(s) == FALSE

\* ((signed char) ((s & 0x7f) + 1) >> 1) > 0
WIFSIGNALED(s) ==
    LET t == WTERMSIG(s) + 1
        sc == IF t >= 128 THEN t - 256 ELSE t
    IN  (sc \div 2) > 0

\* how the child's run of the option parser can end
ChildOutcomes ==
    [kind : {"exit"}, code : {0, 1, 2}]
        \cup [kind : {"signal"}, sig : {6, 11}, core : BOOLEAN]

\* the values an unassigned status can hold: any status word
GarbageStatus == {0, 256, 11, 139, 127}

OutputBytes == {"a", "b", NL}

ChildOutputs == UNION {[1..n -> OutputBytes] : n \in 0..MaxOutput}

ZeroBuf == [i \in 1..ERRBUF_SIZE |-> NUL]

\* line 38: pipe() fails and the call returns false
PipeFails ==
    /\ tpc = "pipe"
    /\ tpc' = "done"
    /\ tret' = FALSE
    /\ UNCHANGED <<errbuf, pipeBuf, writers, child, status, code, crashed, reads,
                   overrun, locVars, renVars, instVars, legVars>>

PipeCreated ==
    /\ tpc = "pipe"
    /\ tpc' = "fork"
    /\ writers' = {"parent"}
    /\ UNCHANGED <<errbuf, pipeBuf, child, status, code, crashed, tret, reads,
                   overrun, locVars, renVars, instVars, legVars>>

\* line 45: fork() returns the child's pid in the parent; the child runs the
\* parser, which writes some output and ends the process
ForkChild ==
    /\ tpc = "fork"
    /\ \E out \in ChildOutputs :
          child' = [state |-> "running", out |-> out, outcome |-> [kind |-> "none"]]
    /\ writers' = {"parent", "child"}
    /\ tpc' = "close_w"
    /\ UNCHANGED <<errbuf, pipeBuf, status, code, crashed, tret, reads, overrun,
                   locVars, renVars, instVars, legVars>>

\* line 45-48: fork() returns -1; cpid is not 0, so the parent branch runs
ForkFails ==
    /\ tpc = "fork"
    /\ tpc' = "close_w"
    /\ UNCHANGED <<errbuf, pipeBuf, writers, child, status, code, crashed, tret,
                   reads, overrun, locVars, renVars, instVars, legVars>>

\* line 86, then line 89 chooses between the read loop and waitpid()
ParentCloseWrite ==
    /\ tpc = "close_w"
    /\ writers' = writers \ {"parent"}
    /\ tpc' = IF errbuf # NULL THEN "read" ELSE "wait"
    /\ UNCHANGED <<errbuf, pipeBuf, child, status, code, crashed, tret, reads,
                   overrun, locVars, renVars, instVars, legVars>>

\* the child's parser writes to stderr or stdout, both the pipe; a write
\* blocks while the pipe is full
ChildWrite ==
    /\ child.state = "running"
    /\ child.out # <<>>
    /\ \E k \in 1..Min(Len(child.out), PIPE_CAP - Len(pipeBuf)) :
          /\ pipeBuf' = pipeBuf \o SubSeq(child.out, 1, k)
          /\ child' = [child EXCEPT !.out = SubSeq(child.out, k + 1, Len(child.out))]
    /\ UNCHANGED <<tpc, errbuf, writers, status, code, crashed, tret, reads,
                   overrun, locVars, renVars, instVars, legVars>>

\* the parser ends the child, by exit() or by a signal, and the child's
\* descriptors are closed
ChildEnds ==
    /\ child.state = "running"
    /\ child.out = <<>>
    /\ \E o \in ChildOutcomes : child' = [child EXCEPT !.state = "ended", !.outcome = o]
    /\ writers' = writers \ {"child"}
    /\ UNCHANGED <<tpc, errbuf, pipeBuf, status, code, crashed, tret, reads,
                   overrun, locVars, renVars, instVars, legVars>>

\* read(pipefd[0], errbuf, ERRBUF_SIZE) stores n bytes at the start of errbuf
\* and leaves the rest of it as it was
ReadInto(buf, chunk) ==
    [i \in 1..ERRBUF_SIZE |-> IF i <= Len(chunk) THEN chunk[i] ELSE buf[i]]

\* lines 95-96: memmove(errbuf, &errbuf[1], ERRBUF_SIZE-1)
StripInitialNewline(buf) ==
    IF buf[1] = NL
    THEN [i \in 1..ERRBUF_SIZE |-> IF i < ERRBUF_SIZE THEN buf[i + 1] ELSE buf[i]]
    ELSE buf

HasNul(buf) == \E i \in 1..Len(buf) : buf[i] = NUL

\* lines 98-99, when errbuf[strlen(errbuf)-1] lies inside errbuf
StripFinalNewline(buf) ==
    LET n == strlen(buf) IN
    IF buf[n] = NL THEN [buf EXCEPT ![n] = NUL] ELSE buf

\* lines 98-99 when strlen() runs past the end of errbuf (it holds no NUL) and
\* stops right behind it: the last byte of errbuf is the one examined
StripLastByte(buf) ==
    IF buf[ERRBUF_SIZE] = NL THEN [buf EXCEPT ![ERRBUF_SIZE] = NUL] ELSE buf

\* the contents errbuf can have after one pass of the loop body; where the
\* byte examined lies outside errbuf (strlen() is 0, or runs past the end),
\* errbuf itself is left alone or loses its last byte
AfterRead(buf, chunk) ==
    LET b == StripInitialNewline(ReadInto(buf, chunk)) IN
    IF ~HasNul(b) THEN {b, StripLastByte(b)}
    ELSE IF strlen(b) = 0 THEN {b}
    ELSE {StripFinalNewline(b)}

\* whether the loop body examined a byte outside errbuf
Overruns(buf, chunk) ==
    LET b == StripInitialNewline(ReadInto(buf, chunk)) IN
    ~HasNul(b) \/ strlen(b) = 0

\* line 92: read() returns the bytes available, at most ERRBUF_SIZE
ReadChunk ==
    /\ tpc = "read"
    /\ pipeBuf # <<>>
    /\ LET n == Min(Len(pipeBuf), ERRBUF_SIZE)
           chunk == SubSeq(pipeBuf, 1, n)
       IN  /\ errbuf' \in AfterRead(errbuf, chunk)
           /\ pipeBuf' = SubSeq(pipeBuf, n + 1, Len(pipeBuf))
           /\ reads' = Append(reads, chunk)
           /\ overrun' = (overrun \/ Overruns(errbuf, chunk))
    /\ UNCHANGED <<tpc, writers, child, status, code, crashed, tret, locVars, renVars, instVars,
                   legVars>>

\* line 92: read() returns 0 once the pipe is empty and no process holds its
\* write end
ReadEof ==
    /\ tpc = "read"
    /\ pipeBuf = <<>>
    /\ writers = {}
    /\ tpc' = "wait"
    /\ UNCHANGED <<errbuf, pipeBuf, writers, child, status, code, crashed, tret,
                   reads, overrun, locVars, renVars, instVars, legVars>>

\* lines 105-115: waitpid(cpid, &status, 0) returns once the child has ended.
\* After a failed fork() cpid is -1 and the process has no child to wait for:
\* waitpid() fails and status keeps the value it happened to have
WaitChild ==
    /\ tpc = "wait"
    /\ child.state # "running"
    /\ \E s \in (IF child.state = "ended" THEN {WaitStatus(child.outcome)}
                 ELSE GarbageStatus) :
          /\ status' = s
          /\ code' = WEXITSTATUS(s)
          /\ crashed' = WIFSIGNALED(s)
    /\ tpc' = "close_r"
    /\ UNCHANGED <<errbuf, pipeBuf, writers, child, tret, reads, overrun, locVars, renVars, instVars,
                   legVars>>

\* lines 120-123
ReturnVerdict ==
    /\ tpc = "close_r"
    /\ tret' = (code = EXIT_SUCCESS /\ ~crashed)
    /\ tpc' = "done"
    /\ UNCHANGED <<errbuf, pipeBuf, writers, child, status, code, crashed, reads,
                   overrun, locVars, renVars, instVars, legVars>>

InitTest ==
    /\ LegIdle
    /\ InstIdle
    /\ LocIdle
    /\ RenIdle
    /\ tpc = "pipe"
    /\ errbuf \in {NULL, ZeroBuf}
    /\ pipeBuf = <<>>
    /\ writers = {}
    /\ child = NoChild
    /\ status = Uninit
    /\ code = -1
    /\ crashed = FALSE
    /\ tret = FALSE
    /\ reads = <<>>
    /\ overrun = FALSE

NextTest ==
    \/ PipeFails \/ PipeCreated \/ ForkChild \/ ForkFails \/ ParentCloseWrite
    \/ ChildWrite \/ ChildEnds \/ ReadChunk \/ ReadEof \/ WaitChild \/ ReturnVerdict

SpecTest == InitTest /\ [][NextTest]_vars

---------------------------------------------------------------------------
(* ConfigValidator: properties *)

Diagnostic(buf) == IF HasNul(buf) THEN CStr(buf) ELSE buf

\* a chunk without one leading and one trailing newline
Stripped(chunk) ==
    LET c1 == IF chunk # <<>> /\ Head(chunk) = NL THEN Tail(chunk) ELSE chunk
    IN  IF c1 # <<>> /\ c1[Len(c1)] = NL THEN SubSeq(c1, 1, Len(c1) - 1) ELSE c1

\* C7 as claimed: once the pipe is drained into a non-NULL errbuf, the text
\* in errbuf is exactly the bytes of the last successful read, without a
\* leading and a trailing newline, and holds no byte of an earlier read
\* (looked at where every byte examined lay inside errbuf).
C7_OnlyLastRead ==
    (tpc \in {"wait", "close_r", "done"} /\ errbuf # NULL /\ reads # <<>> /\ ~overrun) =>
        Diagnostic(errbuf) = Stripped(reads[Len(reads)])

\* C15: the parent is never in waitpid() while the child is still running
\* and blocked in a write to a full pipe; by the time of waitpid() the pipe
\* has been read to its end.
C15_NoWaitOnBlockedChild ==
    ~(/\ tpc = "wait"
      /\ child.state = "running"
      /\ child.out # <<>>
      /\ Len(pipeBuf) = PIPE_CAP)

---------------------------------------------------------------------------
(* ConfigRenderer: the text write_dnsmasq_config writes to the staged file *)

\* the path macro of line 219 (its value is set in a header)
DNSMASQ_CUSTOM_LIST == "/etc/pihole/custom.list"

\* an element of a cJSON array: a string with its valuestring, or another
\* JSON value
JsonString(str) == [type |-> "string", valuestring |-> str]

JsonNumber == [type |-> "number", valuestring |-> ""]

\* a header that carries the time in a line of another form
write_config_header_stamped(timestring) ==
    <<"# Pi-hole: A black hole for Internet advertisements",
      "# written " \o timestring>>

\* lines 168-196, timestring being what get_timestr() gives for time(NULL)
write_config_header(timestring) ==
    <<"# Pi-hole: A black hole for Internet advertisements",
      "# (c) 2023 Pi-hole, LLC (https://pi-hole.net)",
      "# Network-wide ad blocking via your own hardware.",
      "#",
      "# Dnsmasq config for Pi-hole's FTLDNS",
      "#",
      "# This file is copyright under the latest version of the EUPL.",
      "# Please see LICENSE file for your rights under this license.",
      "",
      "###############################################################################",
      "#                  FILE AUTOMATICALLY POPULATED BY PI-HOLE                    #",
      "#  ANY CHANGES MADE TO THIS FILE WILL BE LOST WHEN THE CONFIGURATION CHANGES  #",
      "#                                                                             #",
      "#        IF YOU WISH TO CHANGE THE UPSTREAM SERVERS, CHANGE THEM IN:          #",
      "#                      /etc/pihole/pihole-FTL.toml                            #",
      "#                         and restart pihole-FTL                              #",
      "#                                                                             #",
      "#                                                                             #",
      "#        ANY OTHER CHANGES SHOULD BE MADE IN A SEPARATE CONFIG FILE           #",
      "#                    WITHIN /etc/dnsmasq.d/yourname.conf                      #",
      "#                                                                             #",
      "#                      Last update: " \o timestring \o "                       #",
      "###############################################################################",
      "">>

RECURSIVE ArrayLines(_, _)
\* the loops of lines 230-235, 408-413 and 422-427: one line per array item
\* that is a string, other items are passed over
ArrayLines(key, items) ==
    IF items = <<>> THEN <<>>
    ELSE (IF Head(items).type = "string"
          THEN <<key \o Head(items).valuestring>> ELSE <<>>)
         \o ArrayLines(key, Tail(items))

\* an upstream block that stops after the first server
UpstreamBlock_first(conf) ==
    IF Len(conf.upstreams) > 0
    THEN <<"# List of upstream DNS server">>
         \o ArrayLines("server=", SubSeq(conf.upstreams, 1, 1)) \o <<"">>
    ELSE <<>>

\* lines 226-237
UpstreamBlock(conf) ==
    IF Len(conf.upstreams) > 0
    THEN <<"# List of upstream DNS server">>
         \o ArrayLines("server=", conf.upstreams) \o <<"">>
    ELSE <<>>

\* the disabled branch without its second directive
LoggingBlock_short(conf) ==
    IF conf.logging
    THEN <<"# Enable query logging", "log-queries", "log-async">>
    ELSE <<"# Disable query logging", "#log-queries">>

\* lines 252-263
LoggingBlock(conf) ==
    IF conf.logging
    THEN <<"# Enable query logging", "log-queries", "log-async">>
    ELSE <<"# Disable query logging", "#log-queries", "#log-async">>

\* strcasecmp("none", s) == 0 for the spellings the model uses
IsNoneCaseless(str) == str \in {"none", "None", "NONE"}

\* lines 309-327
DomainBlock(conf) ==
    IF conf.domain # "" /\ ~IsNoneCaseless(conf.domain)
    THEN <<"# DNS domain for the DNS server",
           "domain=" \o conf.domain,
           "">>
         \o (IF conf.domain_needed
             THEN <<"# Never forward A or AAAA queries for plain names, without",
                    "# dots or domain parts, to upstream nameservers. If the name",
                    "# is not known from /etc/hosts or DHCP a NXDOMAIN is returned",
                    "local=/" \o conf.domain \o "/",
                    "">>
             ELSE <<>>)
    ELSE <<>>

\* lines 335-338: eth0 stands in for a missing interface
Interface(conf) == IF conf.interface = "" THEN "eth0" ELSE conf.interface

\* a switch whose first case lacks its break
ListeningBlock_fallthrough(conf) ==
    (CASE conf.listening_mode = "LISTEN_LOCAL" ->
            <<"# Only respond to queries from devices that are at most one hop away (local devices)",
              "local-service",
              "# Listen on all interfaces, permit all origins",
              "except-interface=nonexisting">>
       [] conf.listening_mode = "LISTEN_ALL" ->
            <<"# Listen on all interfaces, permit all origins",
              "except-interface=nonexisting">>
       [] conf.listening_mode = "LISTEN_SINGLE" ->
            <<"# Listen on one interface",
              "interface=" \o Interface(conf)>>
       [] conf.listening_mode = "LISTEN_BIND" ->
            <<"# Bind to one interface",
              "interface=" \o Interface(conf),
              "bind-interfaces">>
       [] OTHER -> <<>>)
    \o <<"">>

\* lines 340-361
ListeningBlock(conf) ==
    (CASE conf.listening_mode = "LISTEN_LOCAL" ->
            <<"# Only respond to queries from devices that are at most one hop away (local devices)",
              "local-service">>
       [] conf.listening_mode = "LISTEN_ALL" ->
            <<"# Listen on all interfaces, permit all origins",
              "except-interface=nonexisting">>
       [] conf.listening_mode = "LISTEN_SINGLE" ->
            <<"# Listen on one interface",
              "interface=" \o Interface(conf)>>
       [] conf.listening_mode = "LISTEN_BIND" ->
            <<"# Bind to one interface",
              "interface=" \o Interface(conf),
              "bind-interfaces">>
       [] OTHER -> <<>>)
    \o <<"">>

\* lines 363-381
RevServerBlock(conf) ==
    IF conf.rev_server.active
    THEN <<"# Reverse server setting",
           "rev-server=" \o conf.rev_server.cidr \o "," \o conf.rev_server.target>>
         \o (IF conf.rev_server.domain # ""
             THEN <<"server=/" \o conf.rev_server.domain \o "/" \o conf.rev_server.target>>
             ELSE <<>>)
         \o (IF ~conf.domain_needed
             THEN <<"server=//" \o conf.rev_server.target>>
             ELSE <<>>)
         \o <<"">>
    ELSE <<>>

\* lines 383-416
DhcpBlock(conf) ==
    IF conf.dhcp.active
    THEN <<"# DHCP server setting",
           "dhcp-authoritative",
           "dhcp-leasefile=/etc/pihole/dhcp.leases",
           "dhcp-range=" \o conf.dhcp.start \o "," \o conf.dhcp.end \o ","
               \o conf.dhcp.leasetime,
           "dhcp-option=option:router," \o conf.dhcp.router>>
         \o (IF conf.dhcp.rapid_commit THEN <<"dhcp-rapid-commit">> ELSE <<>>)
         \o (IF conf.dhcp.ipv6
             THEN <<"dhcp-option=option6:dns-server,[::]",
                    "dhcp-range=::,constructor:" \o Interface(conf)
                        \o ",ra-names,ra-stateless,64">>
             ELSE <<>>)
         \o <<"">>
         \o (IF Len(conf.dhcp.hosts) > 0
             THEN <<"# Per host parameters for the DHCP server">>
                  \o ArrayLines("dhcp-host=", conf.dhcp.hosts) \o <<"">>
             ELSE <<>>)
    ELSE <<>>

\* lines 418-429
CnameBlock(conf) ==
    IF Len(conf.cnames) > 0
    THEN <<"# User-defined custom CNAMEs">>
         \o ArrayLines("cname=", conf.cnames) \o <<"">>
    ELSE <<>>

\* lines 431-455
SpecialDomainsBlock ==
    <<"# RFC 6761: Caching DNS servers SHOULD recognize",
      "#     test, localhost, invalid",
      "# names as special and SHOULD NOT attempt to look up NS records for them, or",
      "# otherwise query authoritative DNS servers in an attempt to resolve these",
      "# names.",
      "server=/test/",
      "server=/localhost/",
      "server=/invalid/",
      "",
      "# The same RFC requests something similar for",
      "#     10.in-addr.arpa.      21.172.in-addr.arpa.  27.172.in-addr.arpa.",
      "#     16.172.in-addr.arpa.  22.172.in-addr.arpa.  28.172.in-addr.arpa.",
      "#     17.172.in-addr.arpa.  23.172.in-addr.arpa.  29.172.in-addr.arpa.",
      "#     18.172.in-addr.arpa.  24.172.in-addr.arpa.  30.172.in-addr.arpa.",
      "#     19.172.in-addr.arpa.  25.172.in-addr.arpa.  31.172.in-addr.arpa.",
      "#     20.172.in-addr.arpa.  26.172.in-addr.arpa.  168.192.in-addr.arpa.",
      "# Pi-hole implements this via the dnsmasq option \"bogus-priv\" above",
      "# (if enabled!) as this option also covers IPv6.",
      "",
      "# OpenWRT furthermore blocks    bind, local, onion    domains",
      "# see https://git.openwrt.org/?p=openwrt/openwrt.git;a=blob_plain;f=package/network/services/dnsmasq/files/rfc6761.conf;hb=HEAD",
      "# and https://www.iana.org/assignments/special-use-domain-names/special-use-domain-names.xhtml",
      "# We do not include the \".local\" rule ourselves, see https://github.com/pi-hole/pi-hole/pull/4282#discussion_r689112972",
      "server=/bind/",
      "server=/onion/">>

\* lines 217-464: the lines written to the staged file for the model conf, in
\* an environment env that gives the time string and whether the directory
\* /etc/dnsmasq.d exists
Render(conf, env) ==
    write_config_header(env.timestring)
    \o <<"addn-hosts=/etc/pihole/local.list",
         "addn-hosts=" \o DNSMASQ_CUSTOM_LIST,
         "",
         "# Don't read /etc/resolv.conf. Get upstream servers only from the configuration",
         "no-resolv",
         "",
         "# DNS port to be used",
         "port=" \o ToString(conf.port)>>
    \o UpstreamBlock(conf)
    \o <<"# Set the size of dnsmasq's cache. The default is 150 names. Setting the cache",
         "# size to zero disables caching. Note: huge cache size impacts performance",
         "cache-size=" \o ToString(conf.cache_size),
         "",
         "# Return answers to DNS queries from /etc/hosts and interface-name and",
         "# dynamic-host which depend on the interface over which the query was",
         "# received. If a name has more than one address associated with it, and",
         "# at least one of those addresses is on the same subnet as the interface",
         "# to which the query was sent, then return only the address(es) on that",
         "# subnet and return all the available addresses otherwise.",
         "localise-queries",
         "">>
    \o LoggingBlock(conf)
    \o (IF conf.log_dnsmasq # ""
        THEN <<"# Specify the log file to use",
               "# We set this even if logging is disabled to store warnings",
               "# and errors in this file. This is useful for debugging.",
               "log-facility=" \o conf.log_dnsmasq,
               "">>
        ELSE <<>>)
    \o (IF conf.bogus_priv
        THEN <<"# Bogus private reverse lookups. All reverse lookups for private IP",
               "# ranges (ie 192.168.x.x, etc) which are not found in /etc/hosts or the",
               "# DHCP leases file are answered with NXDOMAIN rather than being forwarded",
               "bogus-priv",
               "">>
        ELSE <<>>)
    \o (IF conf.domain_needed
        THEN <<"# Add the domain to simple names (without a period) in /etc/hosts in",
               "# the same way as for DHCP-derived names",
               "domain-needed",
               "">>
        ELSE <<>>)
    \o (IF conf.expand_hosts
        THEN <<"# Never forward A or AAAA queries for plain names, without dots or",
               "# domain parts, to upstream nameservers",
               "expand-hosts",
               "">>
        ELSE <<>>)
    \o (IF conf.dnssec
        THEN <<"# Use DNNSEC",
               "dnssec",
               "# 2017-02-02 root zone trust anchor",
               "trust-anchor=.,20326,8,2,E06D44B80B8F1D39A95C0B0D7C65D08458E880409BBC683457104237C7F8EC8D",
               "">>
        ELSE <<>>)
    \o DomainBlock(conf)
    \o (IF conf.host_record # ""
        THEN <<"# Add A, AAAA and PTR records to the DNS",
               "host-record=" \o conf.host_record>>
        ELSE <<>>)
    \o ListeningBlock(conf)
    \o RevServerBlock(conf)
    \o DhcpBlock(conf)
    \o CnameBlock(conf)
    \o SpecialDomainsBlock
    \o (IF env.dir_exists
        THEN <<"# Load possible additional user scripts",
               "conf-dir=/etc/dnsmasq.d",
               "">>
        ELSE <<>>)

---------------------------------------------------------------------------
(* LineLocator: the calls *)

MaxDiagTokens == 5
MaxFileLen == 4
MaxLineno == 3

DiagTokens == {AT_LINE, OF, <<"4">>, <<"2">>, <<"x">>, <<"-">>, <<" ">>}

DiagTokenSeqs == UNION {[1..n -> DiagTokens] : n \in 0..MaxDiagTokens}

StagedFiles == {Unreadable} \cup UNION {[1..n -> {"a", NL}] : n \in 0..MaxFileLen}

InitLine ==
    /\ LegIdle
    /\ InstIdle
    /\ ValIdle
    /\ RenIdle
    /\ locPc = "call"
    /\ \/ /\ \E toks \in DiagTokenSeqs :
                locCall = [op |-> "get_lineno_from_string", tokens |-> toks,
                           string |-> Flatten(toks)]
          /\ stagedBytes = Unreadable
          /\ locRet = -1
       \/ /\ \E n \in 0..MaxLineno :
                locCall = [op |-> "get_dnsmasq_line", lineno |-> n]
          /\ stagedBytes \in StagedFiles
          /\ locRet = NULL

CallGetLineno ==
    /\ locPc = "call"
    /\ locCall.op = "get_lineno_from_string"
    /\ locPc' = "done"
    /\ locRet' = get_lineno_from_string(locCall.string)
    /\ UNCHANGED <<locCall, stagedBytes, valVars, renVars, instVars, legVars>>

CallGetDnsmasqLine ==
    /\ locPc = "call"
    /\ locCall.op = "get_dnsmasq_line"
    /\ locPc' = "done"
    /\ locRet' = get_dnsmasq_line(stagedBytes, locCall.lineno)
    /\ UNCHANGED <<locCall, stagedBytes, valVars, renVars, instVars, legVars>>

NextLine == CallGetLineno \/ CallGetDnsmasqLine

SpecLine == InitLine /\ [][NextLine]_vars

---------------------------------------------------------------------------
(* LineLocator: properties *)

\* the text of a line without its trailing newline
WithoutNewline(line) ==
    IF line # <<>> /\ line[Len(line)] = NL THEN SubSeq(line, 1, Len(line) - 1) ELSE line

\* C8 as claimed: get_dnsmasq_line(N) returns the N-th line of the staged file
\* with its trailing newline removed when the file is readable and has at
\* least N lines (N >= 1), and NULL otherwise.
C8_LineWithoutNewline ==
    (locPc = "done" /\ locCall.op = "get_dnsmasq_line") =>
        LET n == locCall.lineno
            lines == IF stagedBytes = Unreadable THEN <<>> ELSE GetlineLines(stagedBytes)
        IN  IF n >= 1 /\ n <= Len(lines)
            THEN locRet = WithoutNewline(lines[n])
            ELSE locRet = NULL

\* C9 as claimed: get_lineno_from_string returns N when the string contains
\* " at line " followed by an integer N and " of " anywhere, and -1 in every
\* other case (in particular when no " of " follows the integer).
C9_LinenoNeedsOf ==
    (locPc = "done" /\ locCall.op = "get_lineno_from_string") =>
        LET hits == {ScanInt(locCall.string, i + Len(AT_LINE)) :
                        i \in {j \in 1..Len(locCall.string) :
                                  MatchAt(locCall.string, AT_LINE, j)}}
            good == {r \in hits : r.ok /\ MatchAt(locCall.string, OF, r.next)}
        IN  IF good # {} THEN locRet \in {r.value : r \in good} ELSE locRet = -1

RECURSIVE DropSpaceTokens(_)
DropSpaceTokens(toks) ==
    IF toks # <<>> /\ Head(toks) = <<" ">> THEN DropSpaceTokens(Tail(toks)) ELSE toks

RECURSIVE DigitTokens(_)
\* the number of leading one-digit tokens
DigitTokens(toks) ==
    IF toks # <<>> /\ Len(Head(toks)) = 1 /\ IsDigit(Head(toks)[1])
    THEN 1 + DigitTokens(Tail(toks)) ELSE 0

RECURSIVE TokensValue(_, _, _)
TokensValue(toks, n, acc) ==
    IF n = 0 THEN acc ELSE TokensValue(Tail(toks), n - 1, 10 * acc + DigitValue(Head(toks)[1]))

\* what follows the first " at line " token: blanks, an optional sign, digits
LinenoOfTokens(toks) ==
    LET marks == {i \in 1..Len(toks) : toks[i] = AT_LINE}
        m == IF marks = {} THEN 0 ELSE CHOOSE i \in marks : \A j \in marks : i <= j
        r1 == DropSpaceTokens(SubSeq(toks, m + 1, Len(toks)))
        neg == r1 # <<>> /\ Head(r1) = <<"-">>
        r2 == IF neg THEN Tail(r1) ELSE r1
        n == DigitTokens(r2)
        v == TokensValue(r2, n, 0)
    IN  IF m = 0 \/ n = 0 THEN -1 ELSE IF neg THEN 0 - v ELSE v

\* C9 as amended: get_lineno_from_string returns N when the first " at line "
\* of the string is followed, after optional blanks, by an optionally signed
\* integer N, whether or not " of " follows it; it returns -1 when the string
\* has no " at line " or its first one is not followed by an integer.
C9_LinenoOfFirstMarker ==
    (locPc = "done" /\ locCall.op = "get_lineno_from_string") =>
        locRet = LinenoOfTokens(locCall.tokens)

\* a line number was returned for a string that holds no " of " at all
C9_Witness ==
    /\ locPc = "done"
    /\ locCall.op = "get_lineno_from_string"
    /\ locRet = 42
    /\ \A i \in 1..Len(locCall.tokens) : locCall.tokens[i] # OF

---------------------------------------------------------------------------
(* ConfigRenderer: rendering configuration models *)

\* the longest upstream list of a model
MaxUpstreams == 2
\* the number of renderings kept for comparison
MaxRenders == 2

UpstreamItems == {JsonString("8.8.8.8"), JsonString("1.1.1.1"), JsonNumber}

UpstreamLists == UNION {[1..n -> UpstreamItems] : n \in 0..MaxUpstreams}

ListeningModes == {"LISTEN_LOCAL", "LISTEN_ALL", "LISTEN_SINGLE", "LISTEN_BIND"}

\* a configuration model; opt switches the optional parts on or off together
Model(ups, logging, mode, domain, needed, opt) ==
    [port |-> 53,
     upstreams |-> ups,
     cache_size |-> 10000,
     logging |-> logging,
     log_dnsmasq |-> IF opt THEN "/var/log/pihole/pihole.log" ELSE "",
     bogus_priv |-> opt,
     domain_needed |-> needed,
     expand_hosts |-> opt,
     dnssec |-> opt,
     domain |-> domain,
     host_record |-> IF opt THEN "pi.hole,192.168.1.2" ELSE "",
     interface |-> IF opt THEN "eth1" ELSE "",
     listening_mode |-> mode,
     rev_server |-> [active |-> opt, cidr |-> "192.168.0.0/16",
                     target |-> "192.168.1.1", domain |-> domain],
     dhcp |-> [active |-> opt, start |-> "192.168.1.100", end |-> "192.168.1.200",
               leasetime |-> "24h", router |-> "192.168.1.1",
               rapid_commit |-> needed, ipv6 |-> opt,
               hosts |-> IF opt THEN <<JsonString("aa:bb:cc:dd:ee:ff,host1")>> ELSE <<>>],
     cnames |-> IF opt THEN <<JsonString("a.lan,b.lan")>> ELSE <<>>]

Models ==
    {Model(ups, lg, mode, dom, needed, opt) :
        ups \in UpstreamLists, lg \in BOOLEAN, mode \in ListeningModes,
        dom \in {"", "lan", "NONE"}, needed \in BOOLEAN, opt \in BOOLEAN}

Envs == [timestring : {"2023-01-01 00:00:00 UTC", "2023-01-01 00:00:01 UTC"},
         dir_exists : BOOLEAN]

\* the environments at the earlier of the two times
EarlyEnvs == {e \in Envs : e.timestring = "2023-01-01 00:00:00 UTC"}

InitRender ==
    /\ LegIdle
    /\ InstIdle
    /\ LocIdle
    /\ ValIdle
    /\ renConf \in {c \in Models : c.logging}
    /\ renEnv \in EarlyEnvs
    /\ renOut = <<>>

\* the renderer runs on the model as it is now, in the environment as it is now
RenderModel ==
    /\ Len(renOut) < MaxRenders
    /\ renOut' = Append(renOut, [conf |-> renConf, env |-> renEnv,
                                 text |-> Render(renConf, renEnv)])
    /\ UNCHANGED <<renConf, renEnv, locVars, valVars, instVars, legVars>>

\* the logging flag of the model, on at first, is switched
SetLogging ==
    /\ Len(renOut) = 1
    /\ renConf' = [renConf EXCEPT !.logging = ~renConf.logging]
    /\ UNCHANGED <<renEnv, renOut, locVars, valVars, instVars, legVars>>

\* time passes, or /etc/dnsmasq.d is created or removed
EnvChanges ==
    /\ Len(renOut) = 1
    /\ renEnv' \in Envs \ {renEnv}
    /\ UNCHANGED <<renConf, renOut, locVars, valVars, instVars, legVars>>

NextRender == RenderModel \/ SetLogging \/ EnvChanges

SpecRender == InitRender /\ [][NextRender]_vars

\* the pairs of renderings, made in the same environment, of two models that
\* differ only in the logging flag: the first with logging on, the second off
LoggingPairs ==
    {pr \in (1..Len(renOut)) \X (1..Len(renOut)) :
        /\ renOut[pr[1]].env = renOut[pr[2]].env
        /\ renOut[pr[1]].conf.logging
        /\ renOut[pr[2]].conf = [renOut[pr[1]].conf EXCEPT !.logging = FALSE]}

\* C10 as claimed: two models that differ only in the logging flag render to
\* the same number of lines, and every line that differs between the two
\* differs only by a leading comment marker '#'.
C10_OnlyCommentMarker ==
    \A pr \in LoggingPairs :
        LET on == renOut[pr[1]].text
            off == renOut[pr[2]].text
        IN  /\ Len(on) = Len(off)
            /\ \A k \in 1..Min(Len(on), Len(off)) :
                  on[k] # off[k] => off[k] = "#" \o on[k]

\* C10 as amended: two models that differ only in the logging flag, rendered
\* in the same environment (same time string, same state of /etc/dnsmasq.d),
\* render to the same number of lines and differ in exactly three
\* consecutive lines: the comment, "# Enable query logging" in one and
\* "# Disable query logging" in the other, and the two directives log-queries
\* and log-async, which differ only by a leading '#'.
C10_LoggingBlockOnly ==
    \A pr \in LoggingPairs :
        LET on == renOut[pr[1]].text
            off == renOut[pr[2]].text
            diff == {k \in 1..Min(Len(on), Len(off)) : on[k] # off[k]}
        IN  /\ Len(on) = Len(off)
            /\ \E k \in 1..Len(on) :
                  /\ diff = {k, k + 1, k + 2}
                  /\ on[k] = "# Enable query logging"
                  /\ off[k] = "# Disable query logging"
                  /\ on[k + 1] = "log-queries" /\ off[k + 1] = "#" \o on[k + 1]
                  /\ on[k + 2] = "log-async" /\ off[k + 2] = "#" \o on[k + 2]

\* a model was rendered with logging on and with logging off, in one environment
C10_Witness == LoggingPairs # {}

\* (The properties of a single rendering are stated of the rendering made
\* last: every rendering is the last one in the state that follows it.)

\* the position of the first line of text that reads line, 0 when none does
LineIndex(text, line) ==
    LET hits == {k \in 1..Len(text) : text[k] = line}
    IN  IF hits = {} THEN 0 ELSE CHOOSE k \in hits : \A j \in hits : k <= j

\* the lines of a rendering after its port= line and before its cache-size= line
UpstreamRegion(r) ==
    SubSeq(r.text, LineIndex(r.text, "port=" \o ToString(r.conf.port)) + 1,
           LineIndex(r.text, "cache-size=" \o ToString(r.conf.cache_size)) - 1)

\* the upstream-forwarding directives there can be
UpstreamDirectiveLines ==
    {"server=" \o it.valuestring : it \in {u \in UpstreamItems : u.type = "string"}}

IsUpstreamDirective(line) == line \in UpstreamDirectiveLines

UpstreamDirectives(lines) == SelectSeq(lines, IsUpstreamDirective)

\* the directives expected for the entries of an upstream list that are strings
StringServers(ups) ==
    LET IsStr(it) == it.type = "string"
        strs == SelectSeq(ups, IsStr)
    IN  [k \in 1..Len(strs) |-> "server=" \o strs[k].valuestring]

UPSTREAM_COMMENT == "# List of upstream DNS server"

\* C11 as claimed: a model whose upstream list has N entries renders to
\* exactly N upstream directives between the port= and cache-size= lines,
\* and to neither directive nor comment header for N = 0.
C11_OneDirectivePerEntry ==
    \A i \in {Len(renOut)} \ {0} :
        LET r == renOut[i]
            N == Len(r.conf.upstreams)
        IN  /\ Len(UpstreamDirectives(UpstreamRegion(r))) = N
            /\ N = 0 => LineIndex(r.text, UPSTREAM_COMMENT) = 0

\* C11 as amended: the rendering holds one upstream directive
\* 'server=<valuestring>' for each entry of the upstream list that is a JSON
\* string, in list order, all of them after the port= line and before the
\* cache-size= line and none elsewhere; an entry that is not a string gives
\* no line.  The comment header is there exactly when the list is not empty
\* (also when none of its entries is a string), directly after the port=
\* line.
C11_OneDirectivePerStringEntry ==
    \A i \in {Len(renOut)} \ {0} :
        LET r == renOut[i]
            port == LineIndex(r.text, "port=" \o ToString(r.conf.port))
            cache == LineIndex(r.text, "cache-size=" \o ToString(r.conf.cache_size))
        IN  /\ 0 < port /\ port < cache
            /\ UpstreamDirectives(UpstreamRegion(r)) = StringServers(r.conf.upstreams)
            /\ UpstreamDirectives(r.text) = StringServers(r.conf.upstreams)
            /\ IF Len(r.conf.upstreams) > 0
               THEN r.text[port + 1] = UPSTREAM_COMMENT
               ELSE LineIndex(r.text, UPSTREAM_COMMENT) = 0

\* a model with two upstream entries, one of them not a string, has been
\* rendered, to one directive
C11_Witness ==
    \E i \in 1..Len(renOut) :
        /\ Len(renOut[i].conf.upstreams) = 2
        /\ Len(UpstreamDirectives(renOut[i].text)) = 1

\* the interface names a model can give, and the fallback
InterfaceNames == {"eth0", "eth1"}

\* the directives of the listening modes, as lines: to which modes each belongs
ModeDirectiveLines(mode) ==
    CASE mode = "LISTEN_LOCAL" -> {"local-service"}
      [] mode = "LISTEN_ALL" -> {"except-interface=nonexisting"}
      [] mode = "LISTEN_SINGLE" -> {"interface=" \o n : n \in InterfaceNames}
      [] mode = "LISTEN_BIND" ->
            {"interface=" \o n : n \in InterfaceNames} \cup {"bind-interfaces"}

AllModeDirectiveLines == UNION {ModeDirectiveLines(m) : m \in ListeningModes}

IsModeDirective(line) == line \in AllModeDirectiveLines

IsModeComment(line) ==
    line \in {"# Only respond to queries from devices that are at most one hop away (local devices)",
              "# Listen on all interfaces, permit all origins",
              "# Listen on one interface",
              "# Bind to one interface"}

\* C12 as claimed: the rendering for a listening mode holds one mode block
\* and no directive that belongs to one of the other three modes.
C12_NoOtherModesDirective ==
    \A i \in {Len(renOut)} \ {0} :
        LET r == renOut[i] IN
        /\ Len(SelectSeq(r.text, IsModeComment)) = 1
        /\ \A m \in ListeningModes \ {r.conf.listening_mode} :
              \A k \in 1..Len(r.text) : r.text[k] \notin ModeDirectiveLines(m)

\* C12 as amended: the rendering holds exactly one mode block, and its
\* directives are exactly those of the model's mode: 'local-service' for
\* local-only, 'except-interface=nonexisting' for all-interfaces,
\* 'interface=<name>' for single-interface, and 'interface=<name>' followed
\* by 'bind-interfaces' for bind-to-interface, <name> being the configured
\* interface or eth0 when none is configured.  'interface=' is common to the
\* last two modes; 'local-service', 'except-interface=' and
\* 'bind-interfaces' appear for their own mode only.
C12_ExactlyTheModesDirectives ==
    \A i \in {Len(renOut)} \ {0} :
        LET r == renOut[i]
            mode == r.conf.listening_mode
            name == IF r.conf.interface = "" THEN "eth0" ELSE r.conf.interface
        IN  /\ Len(SelectSeq(r.text, IsModeComment)) = 1
            /\ SelectSeq(r.text, IsModeDirective) =
                  (CASE mode = "LISTEN_LOCAL" -> <<"local-service">>
                     [] mode = "LISTEN_ALL" -> <<"except-interface=nonexisting">>
                     [] mode = "LISTEN_SINGLE" -> <<"interface=" \o name>>
                     [] mode = "LISTEN_BIND" -> <<"interface=" \o name, "bind-interfaces">>)

\* a model in bind-to-interface mode without an interface name has been
\* rendered
C12_Witness ==
    \E i \in 1..Len(renOut) :
        /\ renOut[i].conf.listening_mode = "LISTEN_BIND"
        /\ renOut[i].conf.interface = ""
        /\ LineIndex(renOut[i].text, "interface=eth0") > 0

\* the 'Last update' line of the header for a time string
LastUpdateLine(timestring) ==
    "#                      Last update: " \o timestring \o "                       #"

\* the 'Last update' lines there can be
LastUpdateLines == {LastUpdateLine(e.timestring) : e \in Envs}

IsLastUpdateLine(line) == line \in LastUpdateLines

IsOtherLine(line) == ~IsLastUpdateLine(line)

\* a rendering without its 'Last update' line
WithoutLastUpdate(text) == SelectSeq(text, IsOtherLine)

\* the pairs of renderings of one and the same model, the earlier one first
SameModelPairs ==
    {pr \in (1..Len(renOut)) \X (1..Len(renOut)) :
        pr[1] < pr[2] /\ renOut[pr[1]].conf = renOut[pr[2]].conf}

\* the lines lines 457-464 add when /etc/dnsmasq.d exists
CONF_DIR_LINES ==
    <<"# Load possible additional user scripts", "conf-dir=/etc/dnsmasq.d", "">>

\* C14 as claimed: two renderings of the same model are the same apart from
\* the 'Last update' line.
C14_FunctionOfModelAlone ==
    \A pr \in SameModelPairs :
        WithoutLastUpdate(renOut[pr[1]].text) = WithoutLastUpdate(renOut[pr[2]].text)

\* C14 as amended: two renderings of the same model made with /etc/dnsmasq.d
\* present both times, or absent both times, are the same apart from the
\* one 'Last update' line, which stands at the same line number in both; a
\* rendering made with the directory present is the one made without it
\* followed by the three lines of the conf-dir block.  The text is a
\* function of the model, the time and the presence of /etc/dnsmasq.d.
C14_FunctionOfModelAndDirectory ==
    \A pr \in SameModelPairs :
        LET a == renOut[pr[1]]
            b == renOut[pr[2]]
            ta == WithoutLastUpdate(a.text)
            tb == WithoutLastUpdate(b.text)
        IN  /\ Len(ta) = Len(a.text) - 1 /\ Len(tb) = Len(b.text) - 1
            /\ LineIndex(a.text, LastUpdateLine(a.env.timestring))
                  = LineIndex(b.text, LastUpdateLine(b.env.timestring))
            /\ a.env.dir_exists = b.env.dir_exists => ta = tb
            /\ (a.env.dir_exists /\ ~b.env.dir_exists) => ta = tb \o CONF_DIR_LINES
            /\ (~a.env.dir_exists /\ b.env.dir_exists) => tb = ta \o CONF_DIR_LINES

\* one model has been rendered at two different times
C14_Witness ==
    \E pr \in SameModelPairs :
        /\ renOut[pr[1]].env.timestring # renOut[pr[2]].env.timestring
        /\ renOut[pr[1]].env.dir_exists = renOut[pr[2]].env.dir_exists
        /\ renOut[pr[1]].text # renOut[pr[2]].text

---------------------------------------------------------------------------
(* ConfigInstaller: write_dnsmasq_config, step by step *)

\* the number of handles a process can hold open (its descriptor limit)
MaxOpenFiles == 2
\* the number of calls each of the concurrent processes makes
MaxCalls == 2

\* the models and environments the calls are made with
InstModels ==
    {Model(<<>>, TRUE, "LISTEN_LOCAL", "", FALSE, FALSE),
     Model(<<JsonString("8.8.8.8")>>, FALSE, "LISTEN_BIND", "lan", TRUE, TRUE)}

InstEnvs == {[timestring |-> "2023-01-01 00:00:00 UTC", dir_exists |-> TRUE]}

\* a live file installed before the first call
OldLive == Render(Model(<<>>, FALSE, "LISTEN_ALL", "", FALSE, FALSE),
                  [timestring |-> "2022-12-31 00:00:00 UTC", dir_exists |-> FALSE])

\* the ways one run of test_dnsmasq_config can go, with the status word the
\* parent ends up reading: pipe() fails; fork() fails and status is never
\* assigned; the child runs the parser and ends
TestRuns ==
    {[ev |-> "pipe_failed", status |-> Uninit]}
        \cup {[ev |-> "fork_failed", status |-> st] : st \in GarbageStatus}
        \cup {[ev |-> "child", status |-> WaitStatus(o)] : o \in ChildOutcomes}

\* lines 34-124: the value test_dnsmasq_config returns for a run
test_dnsmasq_config(run) ==
    IF run.ev = "pipe_failed" THEN FALSE
    ELSE WEXITSTATUS(run.status) = EXIT_SUCCESS /\ ~WIFSIGNALED(run.status)

\* a failed validation that is not acted on
Installs_always(test_config, valid) == TRUE

\* line 478: the call goes on to the rename unless a requested test failed
Installs(test_config, valid) == ~(test_config /\ ~valid)

\* the lines of the live configuration file, Absent when there is none
LiveFile == IF path.LIVE = 0 THEN Absent ELSE content[path.LIVE]

\* the processes inside a call
InCall == {q \in Procs : pc[q] # "idle"}

\* an inode that no path names and no handle is open on
FreeInode ==
    LET used == {path.TEMP, path.LIVE} \cup {fd[q] : q \in Procs}
        free == {i \in Inodes : i \notin used}
    IN  CHOOSE i \in free : \A j \in free : i <= j

\* an inode that nothing refers to any more loses its contents
Collect(cont, pth, fds) ==
    [i \in Inodes |->
        IF i \in {pth.TEMP, pth.LIVE} \cup {fds[q] : q \in Procs} THEN cont[i] ELSE <<>>]

\* writing new at offset 0 of a file that holds old: what lies behind the new
\* lines stays
Overwrite(old, new) == new \o SubSeq(old, Len(new) + 1, Len(old))

\* what the process's call renders
Rendering(p) == Render(call[p].conf, call[p].env)

\* the call of process p, whose record has become c, returns value
Returns(p, c, value) ==
    /\ recording' = recording
    /\ last' = IF ~recording THEN last ELSE
               [proc |-> p, test_config |-> c.test_config, ev |-> c.ev,
                verdict |-> c.verdict, renamed |-> c.renamed,
                staged_kept |-> c.staged_kept, live_changed |-> touched[p],
                ret |-> value]
    /\ call' = [call EXCEPT ![p] = NoCall]
    /\ touched' = [touched EXCEPT ![p] = FALSE]
    /\ pc' = [pc EXCEPT ![p] = "idle"]

\* a call of write_dnsmasq_config(conf, test_config, errbuf) begins
Call(p) ==
    /\ pc[p] = "idle"
    /\ \E c \in InstModels, e \in InstEnvs, t \in BOOLEAN :
          call' = [call EXCEPT ![p] = [NoCall EXCEPT !.conf = c, !.env = e,
                                                     !.test_config = t]]
    /\ pc' = [pc EXCEPT ![p] = "fopen"]
    /\ touched' = [touched EXCEPT ![p] = FALSE]
    /\ calls' = [calls EXCEPT ![p] = Min(@ + 1, MaxCalls)]
    /\ UNCHANGED <<fd, leaked, recording, lock, path, content, last, installed,
                   locVars, valVars, renVars, legVars>>

\* a call begins while no other call is running
CallSerial(p) ==
    /\ \A q \in Procs : pc[q] = "idle"
    /\ Call(p)

\* one of the concurrent processes begins a call
CallConc(p) ==
    /\ calls[p] < MaxCalls
    /\ Call(p)

\* line 201: fopen(DNSMASQ_TEMP_CONF, "w") creates the file or truncates it
FopenOk(p) ==
    /\ pc[p] = "fopen"
    /\ leaked[p] < MaxOpenFiles
    /\ LET i == IF path.TEMP # 0 THEN path.TEMP ELSE FreeInode IN
          /\ path' = [path EXCEPT !.TEMP = i]
          /\ content' = [content EXCEPT ![i] = <<>>]
          /\ fd' = [fd EXCEPT ![p] = i]
    /\ pc' = [pc EXCEPT ![p] = "flock"]
    /\ UNCHANGED <<call, leaked, calls, recording, lock, touched, last, installed, locVars, valVars,
                   renVars, legVars>>

\* lines 203-207
FopenFails(p) ==
    /\ pc[p] = "fopen"
    /\ Returns(p, call[p], FALSE)
    /\ UNCHANGED <<fd, leaked, calls, lock, path, content, installed, locVars, valVars,
                   renVars, legVars>>

\* line 210: flock(LOCK_EX) returns once no other handle holds the lock
FlockOk(p) ==
    /\ pc[p] = "flock"
    /\ lock[fd[p]] = 0
    /\ lock' = [lock EXCEPT ![fd[p]] = p]
    /\ pc' = [pc EXCEPT ![p] = "render"]
    /\ UNCHANGED <<call, fd, leaked, calls, recording, path, content, touched, last, installed,
                   locVars, valVars, renVars, legVars>>

\* lines 210-215
FlockFails(p) ==
    /\ pc[p] = "flock"
    /\ fd' = [fd EXCEPT ![p] = 0]
    /\ content' = Collect(content, path, fd')
    /\ Returns(p, call[p], FALSE)
    /\ UNCHANGED <<leaked, calls, lock, path, installed, locVars, valVars, renVars,
                   legVars>>

\* lines 217-467: the rendering is written and flushed
RenderWrite(p) ==
    /\ pc[p] = "render"
    /\ content' = [content EXCEPT ![fd[p]] = Overwrite(@, Rendering(p))]
    /\ touched' = [q \in Procs |->
                      touched[q] \/ (recording /\ q \in InCall /\ fd[p] = path.LIVE
                                       /\ content'[fd[p]] # content[fd[p]])]
    /\ pc' = [pc EXCEPT ![p] = "unlock"]
    /\ UNCHANGED <<call, fd, leaked, calls, recording, lock, path, last, installed, locVars, valVars,
                   renVars, legVars>>

\* line 470
UnlockOk(p) ==
    /\ pc[p] = "unlock"
    /\ lock' = [lock EXCEPT ![fd[p]] = 0]
    /\ pc' = [pc EXCEPT ![p] = "test"]
    /\ UNCHANGED <<call, fd, leaked, calls, recording, path, content, touched, last, installed,
                   locVars, valVars, renVars, legVars>>

\* lines 470-475: fclose() closes the descriptor, and the lock goes with it
UnlockFails(p) ==
    /\ pc[p] = "unlock"
    /\ lock' = [lock EXCEPT ![fd[p]] = 0]
    /\ fd' = [fd EXCEPT ![p] = 0]
    /\ content' = Collect(content, path, fd')
    /\ Returns(p, call[p], FALSE)
    /\ UNCHANGED <<leaked, calls, path, installed, locVars, valVars, renVars,
                   legVars>>

\* line 478 with test_config false: test_dnsmasq_config is not called
SkipTest(p) ==
    /\ pc[p] = "test"
    /\ ~call[p].test_config
    /\ pc' = [pc EXCEPT ![p] = "rename"]
    /\ UNCHANGED <<call, fd, leaked, calls, recording, lock, path, content, touched, last, installed,
                   locVars, valVars, renVars, legVars>>

\* lines 478-482 with test_config true: on failure the call returns with the
\* handle still open
Validate(p) ==
    /\ pc[p] = "test"
    /\ call[p].test_config
    /\ \E run \in TestRuns :
          LET valid == test_dnsmasq_config(run)
              c == [call[p] EXCEPT !.ev = run.ev,
                                   !.verdict = IF valid THEN "pass" ELSE "fail"]
          IN  IF Installs(call[p].test_config, valid)
              THEN /\ call' = [call EXCEPT ![p] = c]
                   /\ pc' = [pc EXCEPT ![p] = "rename"]
                   /\ UNCHANGED <<fd, leaked, recording, content, touched, last>>
              ELSE /\ Returns(p, [c EXCEPT !.staged_kept =
                                      (path.TEMP = fd[p]
                                         /\ content[fd[p]] = Rendering(p))], FALSE)
                   /\ fd' = [fd EXCEPT ![p] = 0]
                   /\ leaked' = [leaked EXCEPT ![p] = @ + 1]
                   /\ content' = Collect(content, path, fd')
    /\ UNCHANGED <<calls, lock, path, installed, locVars, valVars, renVars,
                   legVars>>

\* line 485: rename() moves the file at the staged path onto the live path
RenameOk(p) ==
    /\ pc[p] = "rename"
    /\ path.TEMP # 0
    /\ path' = [TEMP |-> 0, LIVE |-> path.TEMP]
    /\ content' = Collect(content, path', fd)
    /\ call' = [call EXCEPT ![p].renamed = TRUE]
    /\ installed' = IF ~recording THEN installed ELSE
                    [proc |-> p, test_config |-> call[p].test_config,
                     ev |-> call[p].ev, verdict |-> call[p].verdict,
                     text |-> Rendering(p)]
    /\ touched' = [q \in Procs |->
                      touched[q] \/ (recording /\ q \in InCall /\ LiveFile' # LiveFile)]
    /\ pc' = [pc EXCEPT ![p] = "fclose"]
    /\ UNCHANGED <<fd, leaked, calls, recording, lock, last, locVars, valVars, renVars,
                   legVars>>

\* lines 485-489: the call returns with the handle still open
RenameFails(p) ==
    /\ pc[p] = "rename"
    /\ fd' = [fd EXCEPT ![p] = 0]
    /\ leaked' = [leaked EXCEPT ![p] = @ + 1]
    /\ content' = Collect(content, path, fd')
    /\ Returns(p, call[p], FALSE)
    /\ UNCHANGED <<calls, lock, path, installed, locVars, valVars, renVars,
                   legVars>>

\* lines 492-497
FcloseOk(p) ==
    /\ pc[p] = "fclose"
    /\ fd' = [fd EXCEPT ![p] = 0]
    /\ content' = Collect(content, path, fd')
    /\ Returns(p, call[p], TRUE)
    /\ UNCHANGED <<leaked, calls, lock, path, installed, locVars, valVars, renVars,
                   legVars>>

\* lines 492-496: fclose() fails; the handle is gone all the same
FcloseFails(p) ==
    /\ pc[p] = "fclose"
    /\ fd' = [fd EXCEPT ![p] = 0]
    /\ content' = Collect(content, path, fd')
    /\ Returns(p, call[p], FALSE)
    /\ UNCHANGED <<leaked, calls, lock, path, installed, locVars, valVars, renVars,
                   legVars>>

\* the file system before the first call: no staged file, and a live file
\* from an earlier run or none
Start(kept) ==
    /\ LegIdle
    /\ LocIdle
    /\ ValIdle
    /\ RenIdle
    /\ pc = [p \in Procs |-> "idle"]
    /\ call = [p \in Procs |-> NoCall]
    /\ fd = [p \in Procs |-> 0]
    /\ leaked = [p \in Procs |-> 0]
    /\ calls = [p \in Procs |-> 0]
    /\ recording = kept
    /\ lock = [i \in Inodes |-> 0]
    /\ touched = [p \in Procs |-> FALSE]
    /\ last = NoLast
    /\ \/ /\ path = [TEMP |-> 0, LIVE |-> 0]
          /\ content = [i \in Inodes |-> <<>>]
          /\ installed = NotInstalled
       \/ /\ path = [TEMP |-> 0, LIVE |-> 1]
          /\ content = [i \in Inodes |-> IF i = 1 THEN OldLive ELSE <<>>]
          /\ installed = [NotInstalled EXCEPT !.text = OldLive]

\* the steps of a call once it has begun
Step(p) ==
    \/ FopenOk(p) \/ FopenFails(p) \/ FlockOk(p) \/ FlockFails(p)
    \/ RenderWrite(p) \/ UnlockOk(p) \/ UnlockFails(p) \/ SkipTest(p)
    \/ Validate(p) \/ RenameOk(p) \/ RenameFails(p) \/ FcloseOk(p)
    \/ FcloseFails(p)

Init == Start(TRUE)

\* the program: one process, whose calls follow one another
Next == CallSerial(1) \/ Step(1)

Spec == Init /\ [][Next]_vars

\* calls made by the processes at any time, up to MaxCalls by each
NextConc == \E p \in Procs : CallConc(p) \/ Step(p)

InitConc == Start(FALSE)

SpecConc == InitConc /\ [][NextConc]_vars

---------------------------------------------------------------------------
(* ConfigInstaller: properties *)

\* every text a call can render
Renderings == {Render(c, e) : c \in InstModels, e \in InstEnvs}

\* C1: a call with test_config = true in which test_dnsmasq_config reported
\* failure returned false without a rename onto the live path, the live file
\* kept the content it had before the call, and the staged file was left in
\* place with the call's rendering in it.
C1_FailedValidationKeepsLive ==
    (last.test_config /\ last.verdict = "fail") =>
        /\ ~last.ret
        /\ ~last.renamed
        /\ ~last.live_changed
        /\ last.staged_kept

\* a call that was asked to test and whose test failed has returned, with a
\* live file from before the call still in place
C1_Witness ==
    /\ last.test_config /\ last.verdict = "fail" /\ ~last.ret
    /\ LiveFile = OldLive
    /\ path.TEMP # 0 /\ content[path.TEMP] \in Renderings

\* C2, for the calls made with test_config = true: what such a call has put
\* at the live path is a complete rendering that the validator ran on and
\* accepted before the rename; a staged file that no validator accepted
\* never becomes the live file.
C2_LiveWasValidated ==
    (installed.proc # 0 /\ installed.test_config) =>
        /\ LiveFile = installed.text
        /\ installed.ev = "child"
        /\ installed.verdict = "pass"

\* C4: a call with test_config = true in which pipe() or fork() failed got a
\* failure from test_dnsmasq_config, returned false and renamed nothing.
C4_EnvironmentFailureAborts ==
    (last.test_config /\ last.ev \in {"pipe_failed", "fork_failed"}) =>
        /\ last.verdict = "fail"
        /\ ~last.ret
        /\ ~last.renamed

\* C5: at most one process at a time is between its flock(LOCK_EX) and its
\* flock(LOCK_UN), and no process holds a lock while it runs
\* test_dnsmasq_config or the rename.
C5_OneRendererAtATime ==
    /\ Cardinality({p \in Procs : pc[p] \in {"render", "unlock"}}) <= 1
    /\ \A p \in Procs :
          pc[p] \in {"test", "rename", "fclose"} => \A i \in Inodes : lock[i] # p

\* C16: a call returned true exactly if it renamed the staged file onto the
\* live path, and a call that returned false left the live file as it was.
C16_TrueIffRenamed ==
    last.proc # 0 =>
        /\ last.ret <=> last.renamed
        /\ ~last.ret => ~last.live_changed

\* C17: no call that opened the staged file has returned with its handle
\* still open: no process holds a handle it has left behind.
C17_NoHandleLeftOpen ==
    \A p \in Procs : leaked[p] = 0

\* C18: while a process validates the staged file or is about to rename it,
\* the file at the staged path holds exactly the complete rendering that
\* this process wrote: nothing has changed it since the process's unlock.
C18_StagedIsOwnRendering ==
    \A p \in Procs :
        (pc[p] \in {"test", "rename"} /\ path.TEMP # 0) =>
            content[path.TEMP] = Rendering(p)

---------------------------------------------------------------------------
(* LegacyImporter: read_legacy_dhcp_static_config, read_legacy_cnames_config *)

\* the number of lines in the legacy files before the first call
MaxLegacyLines == 2
\* how often a legacy file is opened
MaxImports == 2

\* lines 527 and 590: the key markers
DHCP_KEY == <<"d", "h", "c", "p", "-", "h", "o", "s", "t", "=">>
CNAME_KEY == <<"c", "n", "a", "m", "e", "=">>
Key(k) == IF k = "dhcp" THEN DHCP_KEY ELSE CNAME_KEY

\* find_equals(): the position of the first '=' of s, of its terminator when
\* it has none
find_equals(s) ==
    LET eq == strstr(s, <<"=">>) IN IF eq = 0 THEN Len(s) + 1 ELSE eq

RECURSIVE TrimLeft(_)
TrimLeft(s) == IF s # <<>> /\ IsSpace(Head(s)) THEN TrimLeft(Tail(s)) ELSE s

RECURSIVE TrimRight(_)
TrimRight(s) ==
    IF s # <<>> /\ IsSpace(s[Len(s)]) THEN TrimRight(SubSeq(s, 1, Len(s) - 1)) ELSE s

\* trim_whitespace(): white space is removed from both ends of the string
trim_whitespace(s) == TrimRight(TrimLeft(s))

RECURSIVE ImportLines_all(_, _)
\* a scan that skips no line
ImportLines_all(lines, key) ==
    IF lines = <<>> THEN <<>>
    ELSE LET linebuffer == Head(lines)
             value == SubSeq(linebuffer, find_equals(linebuffer) + 1, Len(linebuffer))
         IN  <<trim_whitespace(value)>> \o ImportLines_all(Tail(lines), key)

RECURSIVE ImportLines(_, _)
\* lines 520-542 and 583-605: the values appended for the lines getline()
\* delivers; a line without the key marker is skipped, any other gives what
\* follows its first '=', trimmed
ImportLines(lines, key) ==
    IF lines = <<>> THEN <<>>
    ELSE LET linebuffer == Head(lines)
             value == SubSeq(linebuffer, find_equals(linebuffer) + 1, Len(linebuffer))
         IN  (IF strstr(linebuffer, key) = 0 THEN <<>> ELSE <<trim_whitespace(value)>>)
                 \o ImportLines(Tail(lines), key)

\* the entries one scan of a legacy file appends
Entries(bytes, key) == ImportLines(GetlineLines(bytes), key)

\* a rename that leaves the file where it is
RenameAway_never(file, ok) == file

\* lines 556 and 619: rename(path, target); the file stays at path when the
\* rename fails
RenameAway(file, ok) == IF ok THEN Absent ELSE file

\* how the environment treats one call: fopen() fails; fclose() fails;
\* rename() fails; nothing fails
ImportEnvs == {"fopen_fails", "fclose_fails", "rename_fails", "ok"}

\* one call of an importer, whole: lines 500-560 for k = "dhcp", lines
\* 563-623 for k = "cname"
ReadLegacy(k) ==
    \E env \in ImportEnvs :
        LET existed == legFile[k] # Absent
            opened == existed /\ env # "fopen_fails"
            found == IF opened THEN Entries(legFile[k], Key(k)) ELSE <<>>
            closed == opened /\ env # "fclose_fails"
            renamed == closed /\ env # "rename_fails"
        IN  /\ opened => legOpens[k] < MaxImports
            /\ legList' = [legList EXCEPT ![k] = @ \o found]
            /\ legFile' = [legFile EXCEPT ![k] = IF closed THEN RenameAway(@, renamed) ELSE @]
            /\ legBck' = [legBck EXCEPT ![k] = IF legFile'[k] # legFile[k]
                                               THEN legFile[k] ELSE @]
            /\ legOpens' = [legOpens EXCEPT ![k] = IF opened THEN @ + 1 ELSE @]
            /\ legLast' = [kind |-> k, existed |-> existed, opened |-> opened,
                           closed |-> closed, renamed |-> renamed,
                           ret |-> (~existed \/ closed),
                           before |-> legList[k], found |-> found,
                           after_retired |-> (legLast.kind = k /\ legLast.existed
                                                /\ legLast.ret /\ legLast.renamed),
                           after_true |-> (legLast.kind = k /\ legLast.existed
                                             /\ legLast.ret)]
            /\ UNCHANGED <<legOrig, locVars, valVars, renVars, instVars>>

read_legacy_dhcp_static_config == ReadLegacy("dhcp")

read_legacy_cnames_config == ReadLegacy("cname")

\* the lines a legacy file is made of: an entry with white space around the
\* value, a line with another key, the key marker behind another '='
LegacyLines(k) ==
    {Key(k) \o <<" ", "a", " ", NL>>,
     <<"x", "=", "1", NL>>,
     <<"o", "=">> \o Key(k) \o <<"d", NL>>}

RECURSIVE LineSeqs(_, _)
\* the sequences of at most n lines of a legacy file
LineSeqs(k, n) ==
    IF n = 0 THEN {<<>>}
    ELSE LET shorter == LineSeqs(k, n - 1)
         IN  shorter \cup {<<l>> \o ls : l \in LegacyLines(k),
                                          ls \in {x \in shorter : Len(x) = n - 1}}

\* the legacy files of at most n lines, and no file at all
LegacyFiles(k, n) == {Absent} \cup {Flatten(ls) : ls \in LineSeqs(k, n)}

\* before the first call: the two legacy files hold MaxLegacyLines lines at
\* most between them, nothing has been imported, there are no backups
InitLegacy ==
    /\ LocIdle
    /\ ValIdle
    /\ RenIdle
    /\ InstIdle
    /\ \E n \in 0..MaxLegacyLines :
          \E f \in LegacyFiles("dhcp", n), g \in LegacyFiles("cname", MaxLegacyLines - n) :
              /\ legFile = [k \in Kinds |-> IF k = "dhcp" THEN f ELSE g]
              /\ legOrig = legFile
    /\ legBck = [k \in Kinds |-> Absent]
    /\ legList = [k \in Kinds |-> <<>>]
    /\ legOpens = [k \in Kinds |-> 0]
    /\ legLast = NoImport

NextLegacy == read_legacy_dhcp_static_config \/ read_legacy_cnames_config

SpecLegacy == InitLegacy /\ [][NextLegacy]_vars

---------------------------------------------------------------------------
(* LegacyImporter: properties *)

RECURSIVE Repeat(_, _)
\* s, n times over
Repeat(s, n) == IF n = 0 THEN <<>> ELSE s \o Repeat(s, n - 1)

\* C6 as claimed: after a call that returned true on an existing legacy file
\* the file is gone from its path, the call that follows appends nothing,
\* and over all the calls each matching line has given exactly one entry.
C6_ImportedOnce ==
    /\ (legLast.existed /\ legLast.ret) => legFile[legLast.kind] = Absent
    /\ legLast.after_true => legLast.found = <<>>
    /\ \A k \in Kinds :
          legOpens[k] > 0 => legList[k] = Entries(legOrig[k], Key(k))

\* C6 as amended: after a call that returned true on an existing legacy file
\* and whose rename to .bck succeeded, the file is gone from its path and
\* kept as .bck, and the call that follows finds no file, appends nothing
\* and returns true.  Every call that opens the file appends one entry for
\* each matching line, so each matching line has given as many entries as
\* there were calls that opened the file: one, if the first of them also
\* renamed the file.
C6_RetiredWhenRenamed ==
    /\ (legLast.existed /\ legLast.ret /\ legLast.renamed) =>
          /\ legFile[legLast.kind] = Absent
          /\ legBck[legLast.kind] = legOrig[legLast.kind]
    /\ legLast.after_retired =>
          ~legLast.existed /\ legLast.found = <<>> /\ legLast.ret
    /\ \A k \in Kinds :
          /\ legList[k] = Repeat(Entries(legOrig[k], Key(k)), legOpens[k])
          /\ legFile[k] \in {legOrig[k], Absent}
          /\ (legOpens[k] > 0 /\ legLast.kind = k /\ legLast.opened) =>
                legList[k] = legLast.before \o Entries(legOrig[k], Key(k))

\* a file with matching lines was imported and renamed, and the call after
\* that has returned
C6_Witness ==
    /\ legLast.after_retired /\ legLast.ret
    /\ legList[legLast.kind] # <<>>
    /\ legFile[legLast.kind] = Absent

\* v is what follows the first '=' of line, without the white space around it
IsTrimmedValue(line, v) ==
    \E e \in 1..Len(line) :
        /\ line[e] = "="
        /\ \A j \in 1..(e - 1) : line[j] # "="
        /\ \E a \in (e + 1)..(Len(line) + 1) :
              LET b == a + Len(v) - 1 IN
              /\ b <= Len(line)
              /\ SubSeq(line, a, b) = v
              /\ \A j \in (e + 1)..(a - 1) : IsSpace(line[j])
              /\ \A j \in (b + 1)..Len(line) : IsSpace(line[j])
              /\ v # <<>> => ~IsSpace(v[1]) /\ ~IsSpace(v[Len(v)])

\* the lines of the file, by number, that hold the key marker
MarkedLines(lines, key) ==
    {i \in 1..Len(lines) : \E at \in 1..Len(lines[i]) : MatchAt(lines[i], key, at)}

\* the k-th smallest member of a set of numbers
Nth(S, k) == CHOOSE i \in S : Cardinality({j \in S : j <= i}) = k

\* C13: a call that opens the legacy file appends, in file order, one entry
\* for each line that holds the key marker, the entry being what follows the
\* first '=' of the line without the white space around it; lines without
\* the marker add nothing, and the entries the list had before the call stay
\* as they were, in front of the new ones.
C13_OneEntryPerMarkedLine ==
    legLast.opened =>
        LET k == legLast.kind
            lines == GetlineLines(legOrig[k])
            marked == MarkedLines(lines, Key(k))
        IN  /\ Len(legLast.found) = Cardinality(marked)
            /\ \A n \in 1..Len(legLast.found) :
                  IsTrimmedValue(lines[Nth(marked, n)], legLast.found[n])
            /\ legList[k] = legLast.before \o legLast.found

\* a call has read a file with a marked and an unmarked line into a list
\* that had entries already
C13_Witness ==
    /\ legLast.opened
    /\ legLast.before # <<>>
    /\ legLast.found # <<>>
    /\ Len(legLast.found) < Len(GetlineLines(legOrig[legLast.kind]))

=============================================================================
